---------------------------- MODULE Spec2Model ----------------------------
(***************************************************************************)
(* Model of the offshelf spine-detection pipeline:                         *)
(*   lib/opencv/lineDetection.ts  (mergeNearbyLines, mergeGroup,           *)
(*                                 detectShelfRows, detectVerticalLines)   *)
(*   lib/opencv/spineExtractor.ts (calculateSpineRegions, extractSpines)   *)
(*   lib/opencv/utils.ts          (resizeIfNeeded, cropRegion)             *)
(*   lib/detection/index.ts       (detectSpines)                           *)
(*                                                                         *)
(* JavaScript numbers are modelled as exact rationals [n |-> , d |-> ]     *)
(* kept in lowest terms; Math.round is floor(x + 1/2).  Percentages are    *)
(* rationals too (0.8 is 4/5).  Rounding error of IEEE doubles is not      *)
(* modelled.                                                               *)
(***************************************************************************)
EXTENDS Integers, Sequences, FiniteSets, TLC

VARIABLES
    \* ---- mergeNearbyLines (SpecMerge) ----
    mLines,        \* the argument `lines`
    mThreshold,    \* the argument `mergeThreshold`
    mGroups,       \* the groups handed to mergeGroup, in order
    mMerged,       \* the returned list `merged`
    mSorted,       \* the list after the caller's sort (detectVerticalLines)
    mPc,           \* "input" | "merged" | "sorted"
    \* ---- calculateSpineRegions (SpecRegions) ----
    rLines,        \* the argument `lines` (sorted left to right)
    rWidth,        \* the argument `imageWidth`
    rHeight,       \* the argument `imageHeight`
    rConfig,       \* the argument `config`
    rRegions,      \* the returned list `regions`
    rPc,           \* "input" | "done"
    \* ---- detectShelfRows (SpecRows) ----
    sMat,          \* the argument `mat`: the brightness of each pixel row, top to bottom
    sRows,         \* the returned list of ShelfRow
    sFirstRows,    \* what the first call returned, once a second call was made
    sPc,           \* "input" | "done" | "twice"
    \* ---- detectSpines (Spec) ----
    pc,                \* the position of the detectSpines call
    image,             \* the decoded size of the argument `imageBuffer`
    userConfig,        \* the argument `config` (a partial override)
    includeDebugImage, \* the argument `includeDebugImage`
    fullConfig,        \* { ...DEFAULT_CONFIG, ...config }
    originalMat,       \* matrices are [id, cols, rows], or Null
    resizedMat,
    shelfRows,         \* detectShelfRows(resizedMat, fullConfig)
    rowIndex,          \* the row the for loop is at (1-based)
    rowMat,
    rowLines,          \* `lines` of the current row, merged and sorted
    lastEdgesMat,
    originalRowMat,
    allSpines,
    totalLines,
    edgesImageBuffer,  \* Null (undefined) or the encoding of an edge map
    live,              \* ids of the native matrices allocated and not deleted
    allocs,            \* number of matrices allocated so far
    deletes,           \* number of delete() calls so far
    misuse,            \* matrices deleted twice or read after delete()
    result,            \* Null until the call returns its DetectionResult
    \* ---- initOpenCV (SpecLoader) ----
    isInitialized,     \* the module variable of loader.ts
    initPromise,       \* 0 for null, else the number of the promise it holds
    promises,          \* the state of every promise initOpenCV created, in order
    cvMat,             \* whether cv.Mat is defined: the runtime has initialised
    hostHook,          \* whether cv.onRuntimeInitialized was set by somebody else
    hostHookRuns,      \* how many times that earlier hook has been run
    hooks,             \* the promises whose resolve the installed hooks call
    timers,            \* the promises whose 30-second timer has not fired yet
    calls,             \* what each initOpenCV call so far saw and returned
    \* ---- cropRegion (SpecCrop) ----
    cMat,              \* the argument `mat`
    cRequest,          \* the arguments x, y, width, height
    cRect,             \* the cv.Rect handed to mat.roi, Null before the call
    cPc,               \* "input" | "done" | "threw"
    \* ---- findVerticalLines (SpecLines) ----
    vSegments,         \* the rows of the matrix HoughLinesP fills: <<x1, y1, x2, y2>>
    vConfig,           \* the argument `config`
    vLines,            \* the returned list `detectedLines`
    vPc                \* "input" | "done"

mergeVars == <<mLines, mThreshold, mGroups, mMerged, mSorted, mPc>>

regionVars == <<rLines, rWidth, rHeight, rConfig, rRegions, rPc>>

rowVars == <<sMat, sRows, sFirstRows, sPc>>

matVars == <<originalMat, resizedMat, rowMat, lastEdgesMat, originalRowMat,
             live, allocs, deletes, misuse>>

inputVars == <<image, userConfig, includeDebugImage>>

loopVars == <<shelfRows, rowIndex, rowLines, allSpines, totalLines>>

detectVars == <<pc, inputVars, fullConfig, matVars, loopVars, edgesImageBuffer, result>>

loaderVars == <<isInitialized, initPromise, promises, cvMat, hostHook, hostHookRuns,
                hooks, timers, calls>>

cropVars == <<cMat, cRequest, cRect, cPc>>

lineVars == <<vSegments, vConfig, vLines, vPc>>

otherVars == <<mergeVars, regionVars, rowVars, loaderVars, cropVars, lineVars>>

vars == <<otherVars, detectVars>>

-----------------------------------------------------------------------------
(* Bounds of the model *)

MaxX == 2          \* raw segment x1 ranges over 0..MaxX
MaxLines == 3      \* longest line list handed to mergeNearbyLines
MaxWidth == 8      \* widest image handed to calculateSpineRegions
MaxRegionLines == 3 \* longest line list handed to calculateSpineRegions
MaxHeight == 10    \* tallest enumerated image handed to detectShelfRows
MaxRowLines == 2   \* most segments HoughLinesP reports for one shelf row
MaxCalls == 4      \* most initOpenCV calls made in one run
MaxCropSide == 3   \* largest side of a matrix handed to cropRegion
MaxSegX == 2       \* largest x1 of a segment handed to findVerticalLines
MaxSegments == 2   \* most segments HoughLinesP reports to findVerticalLines

-----------------------------------------------------------------------------
(* Exact arithmetic on JavaScript numbers *)

Abs(k) == IF k < 0 THEN -k ELSE k

RECURSIVE Gcd(_, _)
Gcd(a, b) == IF b = 0 THEN a ELSE Gcd(b, a % b)

Rat(n, d) == LET g == Gcd(Abs(n), d) IN [n |-> n \div g, d |-> d \div g]

RInt(k) == [n |-> k, d |-> 1]

RAdd(a, b) == Rat(a.n * b.d + b.n * a.d, a.d * b.d)

RSub(a, b) == Rat(a.n * b.d - b.n * a.d, a.d * b.d)

RMul(a, b) == Rat(a.n * b.n, a.d * b.d)

RDivInt(a, k) == Rat(a.n, a.d * k)

RAbs(a) == [n |-> Abs(a.n), d |-> a.d]

RLess(a, b) == a.n * b.d < b.n * a.d

RLeq(a, b) == a.n * b.d <= b.n * a.d

\* Math.round: nearest integer, ties towards +Infinity
MathRound(a) == (2 * a.n + a.d) \div (2 * a.d)

Min2(a, b) == IF a <= b THEN a ELSE b

Max2(a, b) == IF a >= b THEN a ELSE b

SetMin(S) == CHOOSE m \in S : \A k \in S : m <= k

SetMax(S) == CHOOSE m \in S : \A k \in S : m >= k

RECURSIVE SumSeq(_)
SumSeq(s) == IF s = <<>> THEN 0 ELSE s[1] + SumSeq(Tail(s))

RECURSIVE RSumSeq(_)
RSumSeq(s) == IF s = <<>> THEN RInt(0) ELSE RAdd(s[1], RSumSeq(Tail(s)))

-----------------------------------------------------------------------------
(* DetectedLine and the line merger (lineDetection.ts) *)

DetectedLine(x1, y1, x2, y2, angle, avgX) ==
    [x1 |-> x1, y1 |-> y1, x2 |-> x2, y2 |-> y2, angle |-> angle, avgX |-> avgX]

\* mutant: the lines are left in the order they came in
InsertAtEnd(sorted, l) == Append(sorted, l)

\* [...lines].sort((a, b) => a.avgX - b.avgX): a stable sort, as an insertion sort
InsertByAvgX(sorted, l) ==
    LET k == Cardinality({i \in 1..Len(sorted) : RLeq(sorted[i].avgX, l.avgX)})
    IN  SubSeq(sorted, 1, k) \o <<l>> \o SubSeq(sorted, k + 1, Len(sorted))

RECURSIVE SortByAvgX(_)
SortByAvgX(s) ==
    IF s = <<>> THEN <<>>
    ELSE InsertByAvgX(SortByAvgX(SubSeq(s, 1, Len(s) - 1)), s[Len(s)])

NonDecreasingAvgX(s) ==
    \A i \in 1..(Len(s) - 1) : RLeq(s[i].avgX, s[i + 1].avgX)

\* mutant: the distance is taken between the segments' x1 instead of avgX
CloseToGroupByX1(current, lastInGroup, mergeThreshold) ==
    Abs(current.x1 - lastInGroup.x1) <= mergeThreshold

\* the test that keeps a line in the current group (line 174)
CloseToGroup(current, lastInGroup, mergeThreshold) ==
    RLeq(RAbs(RSub(current.avgX, lastInGroup.avgX)), RInt(mergeThreshold))

\* the for loop of mergeNearbyLines: `done` is the list of closed groups,
\* `cur` is currentGroup
RECURSIVE GroupLoop(_, _, _, _, _)
GroupLoop(sorted, i, done, cur, mergeThreshold) ==
    IF i > Len(sorted) THEN <<done, cur>>
    ELSE IF CloseToGroup(sorted[i], cur[Len(cur)], mergeThreshold)
         THEN GroupLoop(sorted, i + 1, done, Append(cur, sorted[i]), mergeThreshold)
         ELSE GroupLoop(sorted, i + 1, Append(done, cur), <<sorted[i]>>, mergeThreshold)

\* mutant: the group still open when the loop ends is never merged
GroupsDropLast(loop) == loop[1]

\* the groups mergeNearbyLines hands to mergeGroup, the last one included
\* ("Don't forget the last group", line 184)
GroupsOf(loop) == Append(loop[1], loop[2])

\* mutant: the first member stands for the group
MergeGroupFirst(g) == g[1]

MergeGroup(g) ==
    IF Len(g) = 1 THEN g[1]
    ELSE
      LET n     == Len(g)
          avgX1 == Rat(SumSeq([i \in 1..n |-> g[i].x1]), n)
          avgY1 == SetMin({Min2(g[i].y1, g[i].y2) : i \in 1..n})
          avgX2 == Rat(SumSeq([i \in 1..n |-> g[i].x2]), n)
          avgY2 == SetMax({Max2(g[i].y1, g[i].y2) : i \in 1..n})
          avgAngle == RDivInt(RSumSeq([i \in 1..n |-> g[i].angle]), n)
          avgX  == RDivInt(RAdd(avgX1, avgX2), 2)
      IN  DetectedLine(MathRound(avgX1), MathRound(RInt(avgY1)),
                       MathRound(avgX2), MathRound(RInt(avgY2)), avgAngle, avgX)

LineGroups(lines, mergeThreshold) ==
    IF Len(lines) = 0 THEN <<>>
    ELSE LET sorted == SortByAvgX(lines)
         IN  GroupsOf(GroupLoop(sorted, 2, <<>>, <<sorted[1]>>, mergeThreshold))

MergeNearbyLines(lines, mergeThreshold) ==
    LET gs == LineGroups(lines, mergeThreshold)
    IN  [i \in 1..Len(gs) |-> MergeGroup(gs[i])]

\* the default value of mergeNearbyLines' second parameter
DefaultMergeThreshold == 8


-----------------------------------------------------------------------------
(* DetectionConfig (lineDetection.ts) *)

DEFAULT_CONFIG ==
    [ minSpineWidthPercent   |-> Rat(4, 5),
      maxSpineWidthPercent   |-> RInt(12),
      verticalAngleTolerance |-> RInt(15),
      minLineLengthPercent   |-> RInt(15),
      cannyLowThreshold      |-> RInt(30),
      cannyHighThreshold     |-> RInt(120),
      maxImageDimension      |-> RInt(2000) ]

ConfigFields == DOMAIN DEFAULT_CONFIG

\* JavaScript null
Null == [null |-> TRUE]

\* the default value {} of detectSpines' parameter `config`
EmptyConfig == [f \in {} |-> RInt(0)]

\* { ...DEFAULT_CONFIG, ...config }  (detection/index.ts line 59)
MergeConfig(override) ==
    [f \in ConfigFields |-> IF f \in DOMAIN override THEN override[f] ELSE DEFAULT_CONFIG[f]]

-----------------------------------------------------------------------------
(* The spine region calculator (spineExtractor.ts) *)

BoundingBox(x, y, width, height) == [x |-> x, y |-> y, width |-> width, height |-> height]

Region(box, leftEdge, rightEdge) ==
    [boundingBox |-> box, leftEdge |-> leftEdge, rightEdge |-> rightEdge]

MinWidthOf(imageWidth, config) ==
    RMul(RInt(imageWidth), RDivInt(config.minSpineWidthPercent, 100))

\* mutant: the percentage is used as a fraction of the width, not divided by 100
MaxWidthOfFraction(imageWidth, config) ==
    RMul(RInt(imageWidth), config.maxSpineWidthPercent)

MaxWidthOf(imageWidth, config) ==
    RMul(RInt(imageWidth), RDivInt(config.maxSpineWidthPercent, 100))

\* mutant: the whole-image region is subjected to the width bounds too
NoLineRegionsBounded(imageWidth, imageHeight, minWidth, maxWidth) ==
    IF RLeq(minWidth, RInt(imageWidth)) /\ RLeq(RInt(imageWidth), maxWidth)
    THEN << Region(BoundingBox(0, 0, imageWidth, imageHeight), Null, Null) >>
    ELSE << >>

\* lines 47-53: no lines, the entire image is one potential spine
NoLineRegions(imageWidth, imageHeight, minWidth, maxWidth) ==
    << Region(BoundingBox(0, 0, imageWidth, imageHeight), Null, Null) >>

\* lines 57 and 94: the leading and the trailing region
EdgeWidthAccepted(w, minWidth, maxWidth) == RLess(minWidth, w) /\ RLess(w, maxWidth)

\* mutant: the upper bound on a gap is not tested
GapWidthAcceptedNoMax(w, minWidth, maxWidth) == RLeq(minWidth, w)

\* line 77: a gap between consecutive lines
GapWidthAccepted(w, minWidth, maxWidth) == RLeq(minWidth, w) /\ RLeq(w, maxWidth)

LeadingRegions(lines, imageHeight, minWidth, maxWidth) ==
    LET firstLine == lines[1]
    IN  IF EdgeWidthAccepted(firstLine.avgX, minWidth, maxWidth)
        THEN << Region(BoundingBox(0, 0, MathRound(firstLine.avgX), imageHeight),
                       Null, firstLine) >>
        ELSE << >>

\* the for loop of lines 71-89, from index i on
RECURSIVE GapRegions(_, _, _, _, _)
GapRegions(lines, i, imageHeight, minWidth, maxWidth) ==
    IF i > Len(lines) - 1 THEN << >>
    ELSE
      LET leftLine  == lines[i]
          rightLine == lines[i + 1]
          gapWidth  == RSub(rightLine.avgX, leftLine.avgX)
          here == IF GapWidthAccepted(gapWidth, minWidth, maxWidth)
                  THEN << Region(BoundingBox(MathRound(leftLine.avgX), 0,
                                             MathRound(gapWidth), imageHeight),
                                 leftLine, rightLine) >>
                  ELSE << >>
      IN  here \o GapRegions(lines, i + 1, imageHeight, minWidth, maxWidth)

TrailingRegions(lines, imageWidth, imageHeight, minWidth, maxWidth) ==
    LET lastLine == lines[Len(lines)]
        rightGap == RSub(RInt(imageWidth), lastLine.avgX)
    IN  IF EdgeWidthAccepted(rightGap, minWidth, maxWidth)
        THEN << Region(BoundingBox(MathRound(lastLine.avgX), 0,
                                   MathRound(rightGap), imageHeight),
                       lastLine, Null) >>
        ELSE << >>

CalculateSpineRegions(lines, imageWidth, imageHeight, config) ==
    LET minWidth == MinWidthOf(imageWidth, config)
        maxWidth == MaxWidthOf(imageWidth, config)
    IN  IF Len(lines) = 0
        THEN NoLineRegions(imageWidth, imageHeight, minWidth, maxWidth)
        ELSE LeadingRegions(lines, imageHeight, minWidth, maxWidth)
             \o GapRegions(lines, 1, imageHeight, minWidth, maxWidth)
             \o TrailingRegions(lines, imageWidth, imageHeight, minWidth, maxWidth)


-----------------------------------------------------------------------------
(* The shelf row segmenter (lineDetection.ts, detectShelfRows) *)
(* A matrix is given by the brightness of its pixel rows: every pixel of a  *)
(* row has the row's grey value, so rowBrightness[y] = sum / width is that  *)
(* value.  Row y of the code is element y + 1 of the sequence.              *)

ShelfRow(y, height) == [y |-> y, height |-> height]

RowBrightness(mat, y) == mat[y + 1]

\* mutant: a window of 0 is not replaced by 1
SmoothWindowNoFallback(height) == height \div 100

\* Math.floor(height * 0.01) || 1
SmoothWindow(height) == IF height \div 100 = 0 THEN 1 ELSE height \div 100

RECURSIVE SumRows(_, _, _)
SumRows(mat, lo, hi) ==
    IF lo > hi THEN 0
    ELSE IF lo = hi THEN RowBrightness(mat, lo)
    ELSE LET mid == (lo + hi) \div 2
         IN  SumRows(mat, lo, mid) + SumRows(mat, mid + 1, hi)

\* lines 308-316: sum / count over j = max(0, i - w) .. min(height - 1, i + w)
Smoothed(mat, i) ==
    LET height == Len(mat)
        lo == Max2(0, i - SmoothWindow(height))
        hi == Min2(height - 1, i + SmoothWindow(height))
    IN  Rat(SumRows(mat, lo, hi), hi - lo + 1)

RECURSIVE SumSmoothed(_, _, _)
SumSmoothed(mat, lo, hi) ==
    IF lo > hi THEN RInt(0)
    ELSE IF lo = hi THEN Smoothed(mat, lo)
    ELSE LET mid == (lo + hi) \div 2
         IN  RAdd(SumSmoothed(mat, lo, mid), SumSmoothed(mat, mid + 1, hi))

\* line 319
AvgBrightness(mat) == RDivInt(SumSmoothed(mat, 0, Len(mat) - 1), Len(mat))

\* mutant: rows below 60% of the average count as dark
DarkThresholdSixty(mat) == RMul(AvgBrightness(mat), Rat(3, 5))

\* line 322: avgBrightness * 0.4
DarkThreshold(mat) == RMul(AvgBrightness(mat), Rat(2, 5))

\* the dark rows: smoothed[y] < darkThreshold
DarkRows(mat) ==
    LET darkThreshold == DarkThreshold(mat)
    IN  { y \in 0..(Len(mat) - 1) : RLess(Smoothed(mat, y), darkThreshold) }

\* lines 335 and 343: a band must be more than 1% of the image height
BandTallEnough(bandHeight, height) == RLess(Rat(height, 100), RInt(bandHeight))

\* lines 328-345: the contiguous runs of dark rows, top to bottom, as
\* [start, end) pairs; `dark` is the set of dark rows
DarkBands(dark, height) ==
    LET starts == { y \in dark : (y - 1) \notin dark }
        EndOf(st) == SetMin({ e \in (st + 1)..height : e \notin dark })
        kept == { st \in starts : BandTallEnough(EndOf(st) - st, height) }
        Nth(k) == CHOOSE st \in kept : Cardinality({ t \in kept : t < st }) = k - 1
    IN  [ k \in 1..Cardinality(kept) |-> [start |-> Nth(k), end |-> EndOf(Nth(k))] ]

\* lines 348-352: bands centred in the middle 70% of the image
InMiddle(b, height) ==
    LET center == Rat(b.start + b.end, 2)
        margin == Rat(15 * height, 100)
    IN  RLess(margin, center) /\ RLess(center, RSub(RInt(height), margin))

Separators(darkBands, height) == SelectSeq(darkBands, LAMBDA b : InMiddle(b, height))

\* lines 362, 370, 377: a candidate row must exceed 10% of the image height
CandidateTallEnough(h, height) == RLess(Rat(height, 10), RInt(h))

\* line 368: a row between two bands starts where the upper band ends
TopOfRowAfter(sep) == sep.end

\* lines 367-373, from index i on
RECURSIVE RowsBetween(_, _, _)
RowsBetween(separators, i, height) ==
    IF i > Len(separators) - 1 THEN << >>
    ELSE LET top    == TopOfRowAfter(separators[i])
             bottom == separators[i + 1].start
         IN  (IF CandidateTallEnough(bottom - top, height)
              THEN << ShelfRow(top, bottom - top) >> ELSE << >>)
             \o RowsBetween(separators, i + 1, height)

\* mutant: the last row is given the image height instead of what is left of it
LastRowWholeHeight(lastEnd, height) == ShelfRow(lastEnd, height)

\* line 378: the row from the last band to the bottom of the image
LastRow(lastEnd, height) == ShelfRow(lastEnd, height - lastEnd)

\* lines 359-379
CandidateRows(separators, height) ==
    LET lastEnd == separators[Len(separators)].end
    IN  (IF CandidateTallEnough(separators[1].start, height)
         THEN << ShelfRow(0, separators[1].start) >> ELSE << >>)
        \o RowsBetween(separators, 1, height)
        \o (IF CandidateTallEnough(height - lastEnd, height)
            THEN << LastRow(lastEnd, height) >> ELSE << >>)

\* line 382: each row must be more than 15% of the image height
RowTallEnough(r, height) == RLess(Rat(15 * height, 100), RInt(r.height))

\* mutant: a single surviving row is returned as it is
TooFewRowsOnlyIfNone(validRows) == Len(validRows) < 1

\* line 384: if (validRows.length < 2)
TooFewRows(validRows) == Len(validRows) < 2

\* mutant: the fallback row stops one pixel row short of the image bottom
FullImageShort(height) == << ShelfRow(0, height - 1) >>

\* line 283: const fullImage = [{ y: 0, height }]
FullImage(height) == << ShelfRow(0, height) >>

DetectShelfRows(mat) ==
    LET height     == Len(mat)
        fullImage  == FullImage(height)
        separators == Separators(DarkBands(DarkRows(mat), height), height)
    IN  IF Len(separators) = 0 THEN fullImage
        ELSE LET validRows == SelectSeq(CandidateRows(separators, height),
                                        LAMBDA r : RowTallEnough(r, height))
             IN  IF TooFewRows(validRows) THEN fullImage ELSE validRows


\* mutant: the smoothed profile is written back into the matrix
MatSmoothedInPlace(mat) ==
    [i \in 1..Len(mat) |-> Smoothed(mat, i - 1).n \div Smoothed(mat, i - 1).d]

\* lines 286-303: the argument is only read (the grey copy is what is scanned
\* and deleted), so the matrix is the same after the call
MatAfterCall(mat) == mat

-----------------------------------------------------------------------------
(* Matrix helpers (utils.ts) *)

Mat(id, cols, rows) == [id |-> id, cols |-> cols, rows |-> rows]

\* resizeIfNeeded, line 106 negated: the larger side exceeds maxDimension
NeedsResize(mat, maxDimension) == RLess(maxDimension, RInt(Max2(mat.cols, mat.rows)))

\* resizeIfNeeded, lines 110-112
ResizedSize(mat, maxDimension) ==
    LET maxSide == Max2(mat.cols, mat.rows)
        scale   == RDivInt(maxDimension, maxSide)
    IN  [cols |-> MathRound(RMul(RInt(mat.cols), scale)),
         rows |-> MathRound(RMul(RInt(mat.rows), scale))]

\* mutant: the requested rectangle is handed to mat.roi as it is
CropRectUnclamped(mat, x, y, width, height) ==
    [x |-> x, y |-> y, width |-> width, height |-> height]

\* cropRegion, lines 140-143: the rectangle handed to mat.roi
CropRect(mat, x, y, width, height) ==
    LET clampedX == Max2(0, Min2(x, mat.cols - 1))
        clampedY == Max2(0, Min2(y, mat.rows - 1))
    IN  [x |-> clampedX, y |-> clampedY,
         width  |-> Min2(width, mat.cols - clampedX),
         height |-> Min2(height, mat.rows - clampedY)]

\* cropRegion, line 146: mat.roi(rect) throws unless rect lies inside mat
RoiAccepts(mat, rect) ==
    /\ 0 <= rect.x /\ 0 <= rect.width /\ rect.x + rect.width <= mat.cols
    /\ 0 <= rect.y /\ 0 <= rect.height /\ rect.y + rect.height <= mat.rows

\* delete() on each matrix of the sequence ds in turn: <<live set, ids deleted twice>>
RECURSIVE DeleteAll(_, _)
DeleteAll(liveSet, ds) ==
    IF ds = <<>> THEN <<liveSet, {}>>
    ELSE LET rest == DeleteAll(liveSet \ {ds[1]}, Tail(ds))
         IN  <<rest[1], rest[2] \cup (IF ds[1] \in liveSet THEN {} ELSE {ds[1]})>>

\* the ids among `ids` that are read after their delete()
ReadAfterDelete(liveSet, ids) == ids \ liveSet

-----------------------------------------------------------------------------
(* extractSpines (spineExtractor.ts) and the steps of detectSpines          *)
(* (detection/index.ts)                                                     *)

\* extractSpines, lines 131-154; means[i] is the mean brightness of the i-th
\* crop, which is all the quality filter reads of the encoded buffer
ExtractSpines(rowMatrix, relLines, cfg, means) ==
    LET regions == CalculateSpineRegions(relLines, rowMatrix.cols, rowMatrix.rows, cfg)
    IN  [ i \in 1..Len(regions) |->
            LET box  == regions[i].boundingBox
                rect == CropRect(rowMatrix, box.x, box.y, box.width, box.height)
            IN  [ index       |-> i - 1,
                  boundingBox |-> box,
                  imageBuffer |-> [width |-> rect.width, height |-> rect.height,
                                   mean |-> means[i]],
                  leftEdge    |-> regions[i].leftEdge,
                  rightEdge   |-> regions[i].rightEdge ] ]

ScaleX == Rat(originalMat.cols, resizedMat.cols)

ScaleY == Rat(originalMat.rows, resizedMat.rows)

\* lines 96-103
ScaleLine(line, row, scaleX, scaleY) ==
    [ x1    |-> MathRound(RMul(RInt(line.x1), scaleX)),
      y1    |-> MathRound(RMul(RInt(line.y1 + row.y), scaleY)),
      x2    |-> MathRound(RMul(RInt(line.x2), scaleX)),
      y2    |-> MathRound(RMul(RInt(line.y2 + row.y), scaleY)),
      angle |-> line.angle,
      avgX  |-> RMul(line.avgX, scaleX) ]

\* lines 113-117
RowRelativeLine(line, originalRowY) ==
    [line EXCEPT !.y1 = @ - originalRowY, !.y2 = @ - originalRowY]

\* lines 106-107
OriginalRowY(row, scaleY) == MathRound(RMul(RInt(row.y), scaleY))

OriginalRowHeight(row, scaleY) == MathRound(RMul(RInt(row.height), scaleY))

\* lines 124-127
AdjustSpine(spine, originalRowY, base) ==
    [spine EXCEPT !.boundingBox.y = @ + originalRowY, !.index = base + @]

\* mutant: the brightness of the crop is not tested
KeepSpineAnyBrightness(spine, originalWidth) ==
    ~ RLess(RInt(spine.boundingBox.width), Rat(15 * originalWidth, 1000))

\* mutant: a row's spines are put in front of the earlier rows' spines
PrependRowSpines(spines, rowSpines) == rowSpines \o spines

\* mutant: each row's spines replace those of the rows before
KeepOnlyRowSpines(spines, rowSpines) == rowSpines

\* line 129: allSpines = allSpines.concat(rowSpines)
ConcatRowSpines(spines, rowSpines) == spines \o rowSpines

\* lines 144-155: the spines the quality filter keeps
KeepSpine(spine, originalWidth) ==
    /\ ~ RLess(RInt(spine.boundingBox.width), Rat(15 * originalWidth, 1000))
    /\ ~ (spine.imageBuffer.mean < 20)

\* mutant: the surviving spines keep their provisional index
ReindexSkipped(spines) == spines

\* line 161: filteredSpines.forEach((spine, i) => { spine.index = i; })
Reindex(spines) == [i \in 1..Len(spines) |-> [spines[i] EXCEPT !.index = i - 1]]

\* lines 164-167
ScaleShelfRow(row, scaleY) ==
    [y |-> OriginalRowY(row, scaleY), height |-> OriginalRowHeight(row, scaleY)]

\* detectVerticalLines, lines 409-412, on the segments findVerticalLines kept
DetectVerticalLines(rawLines) ==
    SortByAvgX(MergeNearbyLines(rawLines, DefaultMergeThreshold))

-----------------------------------------------------------------------------
(* findVerticalLines (lineDetection.ts).  Math.atan2 is given for the         *)
(* directions the model uses: exactly where the angle is a whole number of    *)
(* degrees, else to four decimals.                                           *)

\* Math.atan(a / b) * (180 / Math.PI) for 0 < a < b
AtanDeg(a, b) ==
    CASE 4 * a = b -> Rat(140362, 10000)
      [] 3 * a = b -> Rat(184349, 10000)
      [] 2 * a = b -> Rat(265651, 10000)

\* line 134: Math.abs(Math.atan2(deltaX, deltaY) * (180 / Math.PI)), the
\* angle between the segment and the downward vertical, in 0..180
AbsAtan2Deg(deltaX, deltaY) ==
    LET a == Abs(deltaX)
        b == Abs(deltaY)
        acute == IF a = 0 THEN RInt(0)
                 ELSE IF a = b THEN RInt(45)
                 ELSE AtanDeg(a, b)
    IN  IF b = 0 THEN (IF a = 0 THEN RInt(0) ELSE RInt(90))
        ELSE IF deltaY > 0 THEN acute
        ELSE RSub(RInt(180), acute)

\* line 137: within the tolerance of the vertical, pointing down or up
NearVertical(angle, verticalTolerance) ==
    \/ RLeq(angle, verticalTolerance)
    \/ RLeq(RSub(RInt(180), verticalTolerance), angle)

\* line 143: angle: 90 - angle
StoredAngle(angle) == RSub(RInt(90), angle)

\* lines 125-147: the loop over the rows of the Hough matrix
RECURSIVE FindVerticalLines(_, _)
FindVerticalLines(segments, config) ==
    IF segments = <<>> THEN <<>>
    ELSE
      LET seg   == segments[1]
          angle == AbsAtan2Deg(seg[3] - seg[1], seg[4] - seg[2])
          here  == IF NearVertical(angle, config.verticalAngleTolerance)
                   THEN << DetectedLine(seg[1], seg[2], seg[3], seg[4],
                                        StoredAngle(angle), Rat(seg[1] + seg[3], 2)) >>
                   ELSE << >>
      IN  here \o FindVerticalLines(Tail(segments), config)

-----------------------------------------------------------------------------
(* SpecMerge: mergeNearbyLines on bounded line lists, then the caller's sort *)

\* segments as HoughLinesP reports them: integer endpoints, pointing down or up;
\* avgX is (x1 + x2) / 2 as findVerticalLines sets it, or (kind "free") a value
\* set by another producer of DetectedLine
RawLines ==
    { DetectedLine(x1, 0, x1 + dx, 3, RInt(90), Rat(2 * x1 + dx, 2)) :
        x1 \in 0..MaxX, dx \in 0..1 }
    \cup
    { DetectedLine(x1 + dx, 4, x1, 1, RInt(-90), Rat(2 * x1 + dx, 2)) :
        x1 \in 0..MaxX, dx \in 0..1 }

FreeLines ==
    { DetectedLine(x1 + 1, 2, x1 + 1, 5, RInt(88), RInt(MaxX - x1)) : x1 \in 0..MaxX }

LinePool == RawLines \cup FreeLines

LineLists == UNION { [1..n -> LinePool] : n \in 0..MaxLines }

Thresholds == {1, DefaultMergeThreshold}

IdleMerge ==
    /\ mLines = <<>>
    /\ mThreshold = DefaultMergeThreshold
    /\ mGroups = <<>>
    /\ mMerged = <<>>
    /\ mSorted = <<>>
    /\ mPc = "idle"

IdleRegions ==
    /\ rLines = <<>>
    /\ rWidth = 0
    /\ rHeight = 0
    /\ rConfig = DEFAULT_CONFIG
    /\ rRegions = <<>>
    /\ rPc = "idle"

IdleRows ==
    /\ sMat = <<>>
    /\ sRows = <<>>
    /\ sFirstRows = <<>>
    /\ sPc = "idle"

IdleDetect ==
    /\ pc = "idle"
    /\ image = [width |-> 0, height |-> 0]
    /\ userConfig = EmptyConfig
    /\ includeDebugImage = FALSE
    /\ fullConfig = DEFAULT_CONFIG
    /\ originalMat = Null /\ resizedMat = Null /\ rowMat = Null
    /\ lastEdgesMat = Null /\ originalRowMat = Null
    /\ shelfRows = <<>> /\ rowIndex = 0 /\ rowLines = <<>>
    /\ allSpines = <<>> /\ totalLines = 0
    /\ edgesImageBuffer = Null
    /\ live = {} /\ allocs = 0 /\ deletes = 0 /\ misuse = {}
    /\ result = Null

IdleLoader ==
    /\ isInitialized = FALSE
    /\ initPromise = 0
    /\ promises = <<>>
    /\ cvMat = FALSE
    /\ hostHook = FALSE
    /\ hostHookRuns = 0
    /\ hooks = <<>>
    /\ timers = {}
    /\ calls = <<>>

IdleCrop ==
    /\ cMat = Null
    /\ cRequest = Null
    /\ cRect = Null
    /\ cPc = "idle"

IdleLines ==
    /\ vSegments = <<>>
    /\ vConfig = DEFAULT_CONFIG
    /\ vLines = <<>>
    /\ vPc = "idle"

InitMerge ==
    /\ IdleLines
    /\ IdleCrop
    /\ IdleLoader
    /\ IdleRegions
    /\ IdleRows
    /\ IdleDetect
    /\ mLines \in LineLists
    /\ mThreshold \in Thresholds
    /\ mGroups = <<>>
    /\ mMerged = <<>>
    /\ mSorted = <<>>
    /\ mPc = "input"

\* const mergedLines = mergeNearbyLines(rawLines, threshold)
CallMergeNearbyLines ==
    /\ mPc = "input"
    /\ mGroups' = LineGroups(mLines, mThreshold)
    /\ mMerged' = MergeNearbyLines(mLines, mThreshold)
    /\ mPc' = "merged"
    /\ UNCHANGED <<mLines, mThreshold, mSorted, regionVars, rowVars, detectVars, loaderVars, cropVars, lineVars>>

\* mergedLines.sort((a, b) => a.avgX - b.avgX)
CallerSort ==
    /\ mPc = "merged"
    /\ mSorted' = SortByAvgX(mMerged)
    /\ mPc' = "sorted"
    /\ UNCHANGED <<mLines, mThreshold, mGroups, mMerged, regionVars, rowVars, detectVars, loaderVars, cropVars, lineVars>>

NextMerge == CallMergeNearbyLines \/ CallerSort

SpecMerge == InitMerge /\ [][NextMerge]_vars


-----------------------------------------------------------------------------
(* SpecRegions: calculateSpineRegions on bounded sorted line lists *)

RegionHeight == 6

\* a vertical line of a row whose avgX is h / 2
LineAtHalf(h) ==
    DetectedLine(h \div 2, 0, h - (h \div 2), RegionHeight - 1, RInt(90), Rat(h, 2))

\* sorted lists of lines lying inside an image of width w
SortedLineLists(w) ==
    { ls \in UNION { [1..n -> {LineAtHalf(h) : h \in 0..(2 * (w - 1))}] :
                       n \in 0..MaxRegionLines } :
        NonDecreasingAvgX(ls) }

WidthConfig(minPercent, maxPercent) ==
    [DEFAULT_CONFIG EXCEPT !.minSpineWidthPercent = minPercent,
                           !.maxSpineWidthPercent = maxPercent]

RegionConfigs ==
    { DEFAULT_CONFIG,
      WidthConfig(RInt(10), RInt(50)),
      WidthConfig(RInt(25), RInt(100)),
      WidthConfig(Rat(25, 2), RInt(200)) }

\* a row 900 pixels wide with three vertical lines at x = 100, 400 and 700,
\* under the default width percentages (0.8 and 12, i.e. 7.2 to 108 pixels)
ThreeLineRow ==
    [ width  |-> 900,
      lines  |-> << LineAtHalf(200), LineAtHalf(800), LineAtHalf(1400) >>,
      config |-> DEFAULT_CONFIG ]

InitRegions ==
    /\ IdleLines
    /\ IdleCrop
    /\ IdleLoader
    /\ IdleMerge
    /\ IdleRows
    /\ IdleDetect
    /\ rHeight = RegionHeight
    /\ \/ /\ rWidth \in (MaxWidth - 1)..MaxWidth
          /\ rLines \in SortedLineLists(rWidth)
          /\ rConfig \in RegionConfigs
       \/ /\ rWidth = ThreeLineRow.width
          /\ rLines = ThreeLineRow.lines
          /\ rConfig = ThreeLineRow.config
    /\ rRegions = <<>>
    /\ rPc = "input"

\* const regions = calculateSpineRegions(lines, width, height, config)
CallCalculateSpineRegions ==
    /\ rPc = "input"
    /\ rRegions' = CalculateSpineRegions(rLines, rWidth, rHeight, rConfig)
    /\ rPc' = "done"
    /\ UNCHANGED <<rLines, rWidth, rHeight, rConfig, mergeVars, rowVars, detectVars, loaderVars, cropVars, lineVars>>

NextRegions == CallCalculateSpineRegions

SpecRegions == InitRegions /\ [][NextRegions]_vars


-----------------------------------------------------------------------------
(* SpecRows: detectShelfRows on enumerated small images and on the          *)
(* two-band scenario image of 1500 rows                                     *)

GreyLevels == {0, 20, 200}

SmallMats == UNION { [1..h -> GreyLevels] : h \in (MaxHeight - 1)..MaxHeight }

\* 1500 rows of brightness 200 with two bands of brightness 20 (10%) that
\* start at y = 500 and y = 1000 and are bandLen rows tall
TwoBandMat(bandLen) ==
    [ i \in 1..1500 |->
        IF \/ (i - 1 >= 500 /\ i - 1 < 500 + bandLen)
           \/ (i - 1 >= 1000 /\ i - 1 < 1000 + bandLen)
        THEN 20 ELSE 200 ]

\* "y = 500-520" read as rows 500..519 or as rows 500..520
ScenarioMats == { TwoBandMat(20), TwoBandMat(21) }

\* the same image with bands three times as tall
WideBandMats == { TwoBandMat(60) }

InitRows ==
    /\ IdleLines
    /\ IdleCrop
    /\ IdleLoader
    /\ IdleMerge
    /\ IdleRegions
    /\ IdleDetect
    /\ sMat \in SmallMats \cup ScenarioMats \cup WideBandMats
    /\ sRows = <<>>
    /\ sFirstRows = <<>>
    /\ sPc = "input"

\* const shelfRows = detectShelfRows(mat)
CallDetectShelfRows ==
    /\ sPc = "input"
    /\ sRows' = DetectShelfRows(sMat)
    /\ sMat' = MatAfterCall(sMat)
    /\ sPc' = "done"
    /\ UNCHANGED <<sFirstRows, mergeVars, regionVars, detectVars, loaderVars, cropVars, lineVars>>

\* a second detectShelfRows(mat) on the same matrix
CallDetectShelfRowsAgain ==
    /\ sPc = "done"
    /\ sFirstRows' = sRows
    /\ sRows' = DetectShelfRows(sMat)
    /\ sMat' = MatAfterCall(sMat)
    /\ sPc' = "twice"
    /\ UNCHANGED <<mergeVars, regionVars, detectVars, loaderVars, cropVars, lineVars>>

NextRows == CallDetectShelfRows \/ CallDetectShelfRowsAgain

SpecRows == InitRows /\ [][NextRows]_vars


-----------------------------------------------------------------------------
(* SpecLoader: initOpenCV (loader.ts) called up to MaxCalls times while the   *)
(* runtime initialises and the 30-second timers fire, in any order.  The     *)
(* body of initOpenCV has no await, so each call runs to its return in one   *)
(* step.                                                                     *)

\* what a call returned: waitsOn is 0 when it returned at once (line 21),
\* else the number of the promise it returned; saw is the state of
\* initPromise when the call began
Call(waitsOn, saw, created) == [waitsOn |-> waitsOn, saw |-> saw, created |-> created]

\* mutant: the pending promise is not looked at
HasInitPromiseNever(p) == FALSE

\* mutant: a promise that has been rejected is replaced by a new attempt
HasPendingPromise(p) == p # 0 /\ promises[p] = "pending"

\* line 24: if (initPromise)
HasInitPromise(p) == p # 0

PromiseState(p) == IF p = 0 THEN "none" ELSE promises[p]

\* the outcome the caller of a call observes, now
Outcome(call) == IF call.waitsOn = 0 THEN "fulfilled" ELSE promises[call.waitsOn]

\* resolve() / reject() of promise p: a settled promise stays as it is
Settle(ps, p, outcome) ==
    [i \in 1..Len(ps) |-> IF i = p /\ ps[i] = "pending" THEN outcome ELSE ps[i]]

RECURSIVE SettleAll(_, _, _)
SettleAll(ps, ids, outcome) ==
    IF ids = <<>> THEN ps
    ELSE SettleAll(Settle(ps, ids[1], outcome), Tail(ids), outcome)

InitLoader ==
    /\ IdleLines
    /\ IdleCrop
    /\ IdleMerge
    /\ IdleRegions
    /\ IdleRows
    /\ IdleDetect
    /\ isInitialized = FALSE
    /\ initPromise = 0
    /\ promises = <<>>
    /\ cvMat \in BOOLEAN
    /\ hostHook \in BOOLEAN
    /\ hostHookRuns = 0
    /\ hooks = <<>>
    /\ timers = {}
    /\ calls = <<>>

\* lines 19-55: one call of initOpenCV
InitOpenCV ==
    /\ Len(calls) < MaxCalls
    /\ IF isInitialized
       THEN /\ calls' = Append(calls, Call(0, PromiseState(initPromise), FALSE))
            /\ UNCHANGED <<isInitialized, initPromise, promises, hooks, timers>>
       ELSE IF HasInitPromise(initPromise)
       THEN /\ calls' = Append(calls, Call(initPromise, PromiseState(initPromise), FALSE))
            /\ UNCHANGED <<isInitialized, initPromise, promises, hooks, timers>>
       ELSE LET p == Len(promises) + 1
            IN  /\ IF cvMat
                   THEN /\ isInitialized' = TRUE
                        /\ promises' = Append(promises, "fulfilled")
                        /\ UNCHANGED <<hooks, timers>>
                   ELSE /\ promises' = Append(promises, "pending")
                        /\ hooks' = Append(hooks, p)
                        /\ timers' = timers \cup {p}
                        /\ UNCHANGED isInitialized
                /\ initPromise' = p
                /\ calls' = Append(calls, Call(p, PromiseState(initPromise), TRUE))
    /\ UNCHANGED <<cvMat, hostHook, hostHookRuns, mergeVars, regionVars, rowVars, detectVars, cropVars, lineVars>>

\* the runtime finishes initialising and runs cv.onRuntimeInitialized: the
\* hooks of lines 38-44 run the hook they replaced, set isInitialized and
\* resolve their promise
RuntimeInitialized ==
    /\ ~ cvMat
    /\ cvMat' = TRUE
    /\ hostHookRuns' = IF hostHook THEN hostHookRuns + 1 ELSE hostHookRuns
    /\ IF hooks # <<>>
       THEN /\ isInitialized' = TRUE
            /\ promises' = SettleAll(promises, hooks, "fulfilled")
       ELSE UNCHANGED <<isInitialized, promises>>
    /\ UNCHANGED <<initPromise, hostHook, hooks, timers, calls,
                   mergeVars, regionVars, rowVars, detectVars, cropVars, lineVars>>

\* lines 47-51: the timer of promise p fires
TimerFires ==
    /\ \E p \in timers :
          /\ timers' = timers \ {p}
          /\ promises' = IF ~ isInitialized THEN Settle(promises, p, "rejected")
                         ELSE promises
    /\ UNCHANGED <<isInitialized, initPromise, cvMat, hostHook, hostHookRuns, hooks, calls,
                   mergeVars, regionVars, rowVars, detectVars, cropVars, lineVars>>

NextLoader == InitOpenCV \/ RuntimeInitialized \/ TimerFires

SpecLoader == InitLoader /\ [][NextLoader]_vars


-----------------------------------------------------------------------------
(* SpecCrop: cropRegion (utils.ts) on small matrices and on rectangles that  *)
(* start before the matrix or reach past it                                  *)

CropMats == { Mat(<<"mat", 0>>, c, r) : c, r \in 1..MaxCropSide }

CropRequests ==
    [ x : (1 - MaxCropSide)..(MaxCropSide + 1), y : (1 - MaxCropSide)..(MaxCropSide + 1),
      width : 1..(MaxCropSide + 2), height : 1..(MaxCropSide + 2) ]

InitCrop ==
    /\ IdleLines
    /\ IdleMerge
    /\ IdleRegions
    /\ IdleRows
    /\ IdleDetect
    /\ IdleLoader
    /\ cMat \in CropMats
    /\ cRequest \in CropRequests
    /\ cRect = Null
    /\ cPc = "input"

\* const cropped = cropRegion(mat, x, y, width, height)
CallCropRegion ==
    /\ cPc = "input"
    /\ cRect' = CropRect(cMat, cRequest.x, cRequest.y, cRequest.width, cRequest.height)
    /\ cPc' = IF RoiAccepts(cMat, cRect') THEN "done" ELSE "threw"
    /\ UNCHANGED <<cMat, cRequest, mergeVars, regionVars, rowVars, detectVars, loaderVars, lineVars>>

NextCrop == CallCropRegion

SpecCrop == InitCrop /\ [][NextCrop]_vars


-----------------------------------------------------------------------------
(* SpecLines: findVerticalLines on the segments HoughLinesP reports           *)

\* segments that start at (x1, 4) and run down, up or sideways
Segments ==
    { <<x1, 4, x1 + dx, 4 + dy>> :
        x1 \in 1..MaxSegX, dx \in {-1, 0, 1}, dy \in {-4, -3, -2, 2, 3, 4} }
    \cup { <<x1, 4, x1 + 1, 4>> : x1 \in 1..MaxSegX }
    \cup { <<x1, 4, x1 + 1, 5>> : x1 \in 1..MaxSegX }

SegmentLists == UNION { [1..n -> Segments] : n \in 0..MaxSegments }

ToleranceConfigs ==
    { [DEFAULT_CONFIG EXCEPT !.verticalAngleTolerance = RInt(t)] : t \in {0, 15, 20} }

InitLines ==
    /\ IdleMerge
    /\ IdleRegions
    /\ IdleRows
    /\ IdleDetect
    /\ IdleLoader
    /\ IdleCrop
    /\ vSegments \in SegmentLists
    /\ vConfig \in ToleranceConfigs
    /\ vLines = <<>>
    /\ vPc = "input"

\* const rawLines = findVerticalLines(edges, config)
CallFindVerticalLines ==
    /\ vPc = "input"
    /\ vLines' = FindVerticalLines(vSegments, vConfig)
    /\ vPc' = "done"
    /\ UNCHANGED <<vSegments, vConfig, mergeVars, regionVars, rowVars, detectVars,
                   loaderVars, cropVars>>

NextLines == CallFindVerticalLines

SpecLines == InitLines /\ [][NextLines]_vars


-----------------------------------------------------------------------------
(* Spec: one call of detectSpines, step by step.  What the native library    *)
(* computes from pixels (the brightness of the resized rows, the segments    *)
(* HoughLinesP reports, the mean brightness of each crop) and whether a      *)
(* library call throws are inputs of the step that makes the call.           *)

Images ==
    { [width |-> 12, height |-> 10], [width |-> 18, height |-> 15],
      [width |-> 1000, height |-> 750] }

UserConfigs ==
    { EmptyConfig,
      [minSpineWidthPercent |-> RInt(10), maxSpineWidthPercent |-> RInt(50),
       maxImageDimension |-> RInt(12)],
      [minSpineWidthPercent |-> RInt(50), maxSpineWidthPercent |-> RInt(10)],
      [verticalAngleTolerance |-> RInt(-5), maxImageDimension |-> RInt(12)] }

\* the rows of the working image: uniformly bright, or with one dark band
RowProfiles(h) ==
    { [i \in 1..h |-> 200],
      [i \in 1..h |-> IF i - 1 >= (3 * h) \div 10 /\ i - 1 <= (3 * h) \div 10 + 2
                      THEN 0 ELSE 200] }

\* vertical segments of a row matrix, top to bottom, near its left and right side
SegmentXs(m) ==
    { 1, m.cols - 2, m.cols - 1 }
    \cup (IF m.cols >= 100 THEN { m.cols - 50, m.cols - 10 } ELSE {})

RawSegment(m, x) == DetectedLine(x, 0, x, m.rows - 1, RInt(90), RInt(x))

RECURSIVE SegmentsOf(_, _)
SegmentsOf(m, xs) ==
    IF xs = {} THEN << >>
    ELSE LET x == SetMin(xs) IN << RawSegment(m, x) >> \o SegmentsOf(m, xs \ {x})

RawLineLists(m) ==
    { SegmentsOf(m, xs) : xs \in { S \in SUBSET SegmentXs(m) : Cardinality(S) <= MaxRowLines } }

CropMeans == { 5, 20 }

Init ==
    /\ IdleLines
    /\ IdleCrop
    /\ IdleLoader
    /\ IdleMerge
    /\ IdleRegions
    /\ IdleRows
    /\ pc = "start"
    /\ image \in Images
    /\ userConfig \in UserConfigs
    /\ includeDebugImage \in BOOLEAN
    /\ fullConfig = DEFAULT_CONFIG
    /\ originalMat = Null /\ resizedMat = Null /\ rowMat = Null
    /\ lastEdgesMat = Null /\ originalRowMat = Null
    /\ shelfRows = <<>> /\ rowIndex = 0 /\ rowLines = <<>>
    /\ allSpines = <<>> /\ totalLines = 0
    /\ edgesImageBuffer = Null
    /\ live = {} /\ allocs = 0 /\ deletes = 0 /\ misuse = {}
    /\ result = Null

\* lines 58-61: the configuration is merged and initOpenCV resolves
Start ==
    /\ pc = "start"
    /\ fullConfig' = MergeConfig(userConfig)
    /\ pc' = "decode"
    /\ UNCHANGED <<otherVars, inputVars, matVars, loopVars, edgesImageBuffer, result>>

\* lines 63-65: bufferToMat
BufferToMat ==
    /\ pc = "decode"
    /\ originalMat' = Mat(<<"original", 0>>, image.width, image.height)
    /\ live' = live \cup { <<"original", 0>> }
    /\ allocs' = allocs + 1
    /\ pc' = "resize"
    /\ UNCHANGED <<otherVars, inputVars, fullConfig, resizedMat, rowMat, lastEdgesMat, originalRowMat,
                   deletes, misuse, loopVars, edgesImageBuffer, result>>

\* lines 67-72: resizeIfNeeded
ResizeIfNeeded ==
    /\ pc = "resize"
    /\ IF NeedsResize(originalMat, fullConfig.maxImageDimension)
       THEN LET size == ResizedSize(originalMat, fullConfig.maxImageDimension)
            IN  /\ resizedMat' = Mat(<<"resized", 0>>, size.cols, size.rows)
                /\ live' = live \cup { <<"resized", 0>> }
                /\ allocs' = allocs + 1
       ELSE /\ resizedMat' = originalMat
            /\ UNCHANGED <<live, allocs>>
    /\ misuse' = misuse \cup ReadAfterDelete(live, {originalMat.id})
    /\ pc' = "segment"
    /\ UNCHANGED <<otherVars, inputVars, fullConfig, originalMat, rowMat, lastEdgesMat, originalRowMat,
                   deletes, loopVars, edgesImageBuffer, result>>

\* line 75: detectShelfRows(resizedMat); its grey copy is allocated and deleted
SegmentRows ==
    /\ pc = "segment"
    /\ \E pixels \in RowProfiles(resizedMat.rows) : shelfRows' = DetectShelfRows(pixels)
    /\ allocs' = allocs + 1
    /\ deletes' = deletes + 1
    /\ misuse' = misuse \cup ReadAfterDelete(live, {resizedMat.id})
    /\ rowIndex' = 1
    /\ pc' = "rowCrop"
    /\ UNCHANGED <<otherVars, inputVars, fullConfig, originalMat, resizedMat, rowMat, lastEdgesMat,
                   originalRowMat, live, rowLines, allSpines, totalLines,
                   edgesImageBuffer, result>>

\* line 84: the row is cropped from the resized image (roi, clone, roi deleted)
CropRow ==
    /\ pc = "rowCrop"
    /\ LET row  == shelfRows[rowIndex]
           rect == CropRect(resizedMat, 0, row.y, resizedMat.cols, row.height)
       IN  rowMat' = Mat(<<"rowMat", rowIndex>>, rect.width, rect.height)
    /\ live' = live \cup { <<"rowMat", rowIndex>> }
    /\ allocs' = allocs + 2
    /\ deletes' = deletes + 1
    /\ misuse' = misuse \cup ReadAfterDelete(live, {resizedMat.id})
    /\ pc' = "rowLines"
    /\ UNCHANGED <<otherVars, inputVars, fullConfig, originalMat, resizedMat, lastEdgesMat,
                   originalRowMat, loopVars, edgesImageBuffer, result>>

\* mutant: the first row's edge map is kept for the debug image
KeepFirstEdges(previous, edgesMat) == IF previous # Null THEN previous ELSE edgesMat

\* line 93: `lastEdgesMat = edgesMat`
KeepLastEdges(previous, edgesMat) == edgesMat

\* lines 87-93: detectVerticalLines allocates seven matrices (grey, blurred,
\* enhanced, Canny edges, kernel, dilated edges, Hough lines) and deletes all
\* but the dilated edge map it returns; then rowMat and the previous row's
\* edge map are deleted
DetectRowLines ==
    /\ pc = "rowLines"
    /\ \E raw \in RawLineLists(rowMat) : rowLines' = DetectVerticalLines(raw)
    /\ totalLines' = totalLines + Len(rowLines')
    /\ LET edgesId == <<"edges", rowIndex>>
           del == DeleteAll(live \cup {edgesId},
                            <<rowMat.id>> \o (IF lastEdgesMat # Null
                                              THEN <<lastEdgesMat.id>> ELSE << >>))
       IN  /\ lastEdgesMat' = KeepLastEdges(lastEdgesMat,
                                             Mat(edgesId, rowMat.cols, rowMat.rows))
           /\ live' = del[1]
           /\ misuse' = misuse \cup del[2] \cup ReadAfterDelete(live, {rowMat.id})
           /\ allocs' = allocs + 7
           /\ deletes' = deletes + 6 + 1 + (IF lastEdgesMat # Null THEN 1 ELSE 0)
    /\ pc' = "rowOrigCrop"
    /\ UNCHANGED <<otherVars, inputVars, fullConfig, originalMat, resizedMat, rowMat, originalRowMat,
                   shelfRows, rowIndex, allSpines, edgesImageBuffer, result>>

\* lines 96-117: the lines are scaled to the original image and made relative
\* to the row, and the row is cropped from the original image
CropOriginalRow ==
    /\ pc = "rowOrigCrop"
    /\ LET row          == shelfRows[rowIndex]
           originalRowY == OriginalRowY(row, ScaleY)
           rect == CropRect(originalMat, 0, originalRowY, originalMat.cols,
                            OriginalRowHeight(row, ScaleY))
       IN  /\ rowLines' = [ i \in 1..Len(rowLines) |->
                 RowRelativeLine(ScaleLine(rowLines[i], row, ScaleX, ScaleY), originalRowY) ]
           /\ originalRowMat' = Mat(<<"originalRow", rowIndex>>, rect.width, rect.height)
    /\ live' = live \cup { <<"originalRow", rowIndex>> }
    /\ allocs' = allocs + 2
    /\ deletes' = deletes + 1
    /\ misuse' = misuse \cup ReadAfterDelete(live, {originalMat.id})
    /\ pc' = "rowExtract"
    /\ UNCHANGED <<otherVars, inputVars, fullConfig, originalMat, resizedMat, rowMat, lastEdgesMat,
                   shelfRows, rowIndex, allSpines, totalLines, edgesImageBuffer, result>>

\* lines 120-129: extractSpines (per region: roi, clone, the RGB copy made by
\* matToBuffer, all three deleted), originalRowMat deleted, the row's spines
\* moved to image coordinates and appended
ExtractRowSpines ==
    /\ pc = "rowExtract"
    /\ LET n == Len(CalculateSpineRegions(rowLines, originalRowMat.cols,
                                          originalRowMat.rows, fullConfig))
           originalRowY == OriginalRowY(shelfRows[rowIndex], ScaleY)
           del == DeleteAll(live, <<originalRowMat.id>>)
       IN  /\ \E means \in [1..n -> CropMeans] :
                 LET rowSpines == ExtractSpines(originalRowMat, rowLines, fullConfig, means)
                 IN  allSpines' = ConcatRowSpines(allSpines,
                        [ i \in 1..n |-> AdjustSpine(rowSpines[i], originalRowY, Len(allSpines)) ])
           /\ allocs' = allocs + 3 * n
           /\ deletes' = deletes + 3 * n + 1
           /\ live' = del[1]
           /\ misuse' = misuse \cup del[2] \cup ReadAfterDelete(live, {originalRowMat.id})
    /\ rowIndex' = rowIndex + 1
    /\ pc' = IF rowIndex < Len(shelfRows) THEN "rowCrop" ELSE "debug"
    /\ UNCHANGED <<otherVars, inputVars, fullConfig, originalMat, resizedMat, rowMat, lastEdgesMat,
                   originalRowMat, shelfRows, rowLines, totalLines, edgesImageBuffer, result>>

\* lines 133-136: the last row's edge map is encoded when asked for
DebugImage ==
    /\ pc = "debug"
    /\ IF includeDebugImage /\ lastEdgesMat # Null
       THEN /\ edgesImageBuffer' = [png |-> lastEdgesMat.id]
            /\ misuse' = misuse \cup ReadAfterDelete(live, {lastEdgesMat.id})
       ELSE UNCHANGED <<edgesImageBuffer, misuse>>
    /\ pc' = "cleanup"
    /\ UNCHANGED <<otherVars, inputVars, fullConfig, originalMat, resizedMat, rowMat, lastEdgesMat,
                   originalRowMat, live, allocs, deletes, loopVars, result>>

\* mutant: the resized matrix is deleted even when it is the original one
CleanupListAlways ==
    (IF lastEdgesMat # Null THEN <<lastEdgesMat.id>> ELSE << >>)
    \o <<resizedMat.id>> \o <<originalMat.id>>

\* lines 139-141: the matrices Cleanup deletes, in order
CleanupList ==
    (IF lastEdgesMat # Null THEN <<lastEdgesMat.id>> ELSE << >>)
    \o (IF resizedMat # originalMat THEN <<resizedMat.id>> ELSE << >>)
    \o <<originalMat.id>>

Cleanup ==
    /\ pc = "cleanup"
    /\ LET del == DeleteAll(live, CleanupList)
       IN  /\ live' = del[1]
           /\ misuse' = misuse \cup del[2]
           /\ deletes' = deletes + Len(CleanupList)
    /\ pc' = "filter"
    /\ UNCHANGED <<otherVars, inputVars, fullConfig, originalMat, resizedMat, rowMat, lastEdgesMat,
                   originalRowMat, allocs, loopVars, edgesImageBuffer, result>>

\* lines 143-183: the quality filter, the re-indexing and the returned result
QualityFilter ==
    /\ pc = "filter"
    /\ LET filteredSpines == Reindex(SelectSeq(allSpines,
                                 LAMBDA sp : KeepSpine(sp, originalMat.cols)))
       IN  result' =
             [ spines        |-> filteredSpines,
               filteredCount |-> Len(allSpines) - Len(filteredSpines),
               shelfRows     |-> [ i \in 1..Len(shelfRows) |->
                                     ScaleShelfRow(shelfRows[i], ScaleY) ],
               debugInfo     |-> [ imageWidth        |-> originalMat.cols,
                                   imageHeight       |-> originalMat.rows,
                                   resizedWidth      |-> resizedMat.cols,
                                   resizedHeight     |-> resizedMat.rows,
                                   shelfRowsDetected |-> Len(shelfRows),
                                   totalLinesDetected |-> totalLines ],
               edgesImageBuffer |-> edgesImageBuffer ]
    /\ pc' = "done"
    /\ UNCHANGED <<otherVars, inputVars, fullConfig, matVars, loopVars, edgesImageBuffer>>

\* the matrices a library call has allocated and not yet deleted when it
\* throws at position p, one set per place the call can throw from
LeakedAt(p) ==
    CASE p = "start"       -> { {} }
      [] p = "decode"      -> { {}, { <<"original", 0>> } }
      [] p = "resize"      -> { { <<"resized", 0>> } }
      [] p = "segment"     -> { { <<"gray", 0>> } }
      [] p = "rowCrop"     -> { {}, { <<"roi", rowIndex>> } }
      [] p = "rowLines"    -> { { <<"gray", rowIndex>> },
                                { <<"edges", rowIndex>>, <<"houghLines", rowIndex>> } }
      [] p = "rowOrigCrop" -> { {}, { <<"roi", rowIndex>> } }
      [] p = "rowExtract"  -> { { <<"cropped", rowIndex>> } }
      [] OTHER             -> { {} }

\* whether the step at position p makes a library call that can throw
CanThrowAt(p) ==
    CASE p = "resize"  -> NeedsResize(originalMat, fullConfig.maxImageDimension)
      [] p = "debug"   -> includeDebugImage /\ lastEdgesMat # Null
      [] p = "cleanup" -> FALSE
      [] p = "filter"  -> \E i \in 1..Len(allSpines) :
                             ~ RLess(RInt(allSpines[i].boundingBox.width),
                                     Rat(15 * originalMat.cols, 1000))
      [] p \in {"done", "failed", "idle"} -> FALSE
      [] OTHER -> TRUE

\* mutant: a throw inside the row loop is caught and the loop is left
AfterThrowLeavesLoop(p) ==
    IF p \in {"rowCrop", "rowLines", "rowOrigCrop", "rowExtract"} THEN "debug" ELSE "failed"

\* where control goes when the step at position p throws: out of detectSpines,
\* whose promise rejects (no try/catch anywhere in lines 53-184)
AfterThrow(p) == "failed"

\* a stage throws (or its promise rejects): detectSpines has no try/catch/finally,
\* so the exception leaves the function at once and nothing more is deleted
StageThrows ==
    /\ CanThrowAt(pc)
    /\ \E leaked \in LeakedAt(pc) :
          /\ live' = live \cup leaked
          /\ allocs' = allocs + Cardinality(leaked)
    /\ pc' = AfterThrow(pc)
    /\ UNCHANGED <<otherVars, inputVars, fullConfig, originalMat, resizedMat, rowMat, lastEdgesMat,
                   originalRowMat, deletes, misuse, loopVars, edgesImageBuffer, result>>

Next ==
    \/ Start
    \/ BufferToMat
    \/ ResizeIfNeeded
    \/ SegmentRows
    \/ CropRow
    \/ DetectRowLines
    \/ CropOriginalRow
    \/ ExtractRowSpines
    \/ DebugImage
    \/ Cleanup
    \/ QualityFilter
    \/ StageThrows

Spec == Init /\ [][Next]_vars

-----------------------------------------------------------------------------
(* Claims about mergeNearbyLines *)

\* C3 as stated: in every group that mergeNearbyLines collapses into one line,
\* ANY two members have avgX values at most mergeThreshold apart.
C3_AnyTwoWithinThreshold ==
    mPc # "input" =>
        \A k \in 1..Len(mGroups) : \A i, j \in 1..Len(mGroups[k]) :
            RLeq(RAbs(RSub(mGroups[k][i].avgX, mGroups[k][j].avgX)), RInt(mThreshold))

\* C3 amended: in every collapsed group, members that are CONSECUTIVE in avgX
\* order are at most mergeThreshold apart (the group is a chain; its two ends
\* may be further apart).
C3_ConsecutiveWithinThreshold ==
    mPc # "input" =>
        \A k \in 1..Len(mGroups) : \A i \in 1..(Len(mGroups[k]) - 1) :
            /\ RLeq(mGroups[k][i].avgX, mGroups[k][i + 1].avgX)
            /\ RLeq(RSub(mGroups[k][i + 1].avgX, mGroups[k][i].avgX), RInt(mThreshold))

\* a chained group: three or more members, the ends further apart than the threshold
C3_Witness ==
    /\ mPc = "merged"
    /\ \E k \in 1..Len(mGroups) :
          /\ Len(mGroups[k]) >= 3
          /\ RLess(RInt(mThreshold),
                   RSub(mGroups[k][Len(mGroups[k])].avgX, mGroups[k][1].avgX))

\* the line the claim describes for group g: mean x1 and x2 (rounded), the
\* tightest enclosing y span, the mean angle
SpanOfGroup(g) ==
    LET n == Len(g)
    IN  [ x1 |-> MathRound(Rat(SumSeq([i \in 1..n |-> g[i].x1]), n)),
          x2 |-> MathRound(Rat(SumSeq([i \in 1..n |-> g[i].x2]), n)),
          y1 |-> SetMin({g[i].y1 : i \in 1..n} \cup {g[i].y2 : i \in 1..n}),
          y2 |-> SetMax({g[i].y1 : i \in 1..n} \cup {g[i].y2 : i \in 1..n}),
          angle |-> RDivInt(RSumSeq([i \in 1..n |-> g[i].angle]), n) ]

MatchesSpan(line, g) ==
    LET sp == SpanOfGroup(g)
    IN  /\ line.x1 = sp.x1 /\ line.x2 = sp.x2
        /\ line.y1 = sp.y1 /\ line.y2 = sp.y2
        /\ line.y1 <= line.y2
        /\ line.angle = sp.angle

\* C24 as stated: every line mergeNearbyLines returns, for every group, the
\* single-member groups included, has x1 and x2 equal to the group's rounded
\* mean x1 and x2, y1 the minimum of the members' min(y1, y2), y2 the maximum
\* of their max(y1, y2) (so y1 <= y2), and angle the mean of their angles.
C24_EveryGroupSpanned ==
    mPc # "input" =>
        \A k \in 1..Len(mGroups) : MatchesSpan(mMerged[k], mGroups[k])

\* C24 amended: that holds for every group of two or more lines; the line of
\* a single-member group is the member itself, unchanged, so its y1 may
\* exceed its y2 when the segment was reported bottom-up.
C24_GroupSpannedSingleKept ==
    mPc # "input" =>
        /\ Len(mMerged) = Len(mGroups)
        /\ \A k \in 1..Len(mGroups) :
              IF Len(mGroups[k]) >= 2
              THEN MatchesSpan(mMerged[k], mGroups[k])
              ELSE mMerged[k] = mGroups[k][1]

\* a group of two that holds a bottom-up segment was merged, and a bottom-up
\* segment that stayed alone was returned with y1 > y2
C24_Witness ==
    /\ mPc = "merged"
    /\ \E k \in 1..Len(mGroups) :
          /\ Len(mGroups[k]) = 2
          /\ mGroups[k][1].y1 > mGroups[k][1].y2
          /\ mMerged[k].y1 < mMerged[k].y2
    /\ \E k \in 1..Len(mGroups) :
          /\ Len(mGroups[k]) = 1
          /\ mMerged[k].y1 > mMerged[k].y2

\* C9: mergeNearbyLines returns a list no longer than its input, empty only
\* for the empty input, and after the caller's sort the list is in
\* non-decreasing avgX order (and is a reordering of the merged list).
C9_MergeShrinksAndSorts ==
    /\ mPc # "input" =>
          /\ Len(mMerged) <= Len(mLines)
          /\ (Len(mMerged) = 0 <=> Len(mLines) = 0)
    /\ mPc = "sorted" =>
          /\ NonDecreasingAvgX(mSorted)
          /\ Len(mSorted) = Len(mMerged)
          /\ \A i \in 1..Len(mMerged) : \E j \in 1..Len(mSorted) : mSorted[j] = mMerged[i]

\* lines were merged, and the merged list was out of avgX order before the sort
C9_Witness ==
    /\ mPc = "sorted"
    /\ Len(mMerged) >= 2
    /\ Len(mMerged) < Len(mLines)
    /\ ~NonDecreasingAvgX(mMerged)

\* every input line has avgX = (x1 + x2) / 2, as findVerticalLines sets it
AvgXIsMidpoint(lines) ==
    \A i \in 1..Len(lines) : lines[i].avgX = Rat(lines[i].x1 + lines[i].x2, 2)

\* C29: for input lines whose avgX equals (x1 + x2) / 2 the list returned by
\* mergeNearbyLines is already in non-decreasing avgX order, so the sort that
\* follows in detectVerticalLines never changes the order.
C29_MergedMidpointLinesSorted ==
    AvgXIsMidpoint(mLines) =>
        /\ mPc # "input" => NonDecreasingAvgX(mMerged)
        /\ mPc = "sorted" => mSorted = mMerged

\* midpoint lines given out of order were grouped, one group of two or more
\* and another group, and the caller's sort has run
C29_Witness ==
    /\ mPc = "sorted"
    /\ AvgXIsMidpoint(mLines)
    /\ ~ NonDecreasingAvgX(mLines)
    /\ Len(mMerged) >= 2
    /\ \E k \in 1..Len(mGroups) : Len(mGroups[k]) >= 2
    /\ mSorted = mMerged

-----------------------------------------------------------------------------
(* Claims about findVerticalLines *)

\* C21: for every segment findVerticalLines accepts, the stored angle is the
\* deviation from vertical: a perfectly vertical segment (x1 = x2, pointing
\* down or up) is stored with angle 0, and every stored angle has magnitude
\* at most verticalAngleTolerance.
C21_AngleIsDeviationFromVertical ==
    vPc = "done" =>
        \A i \in 1..Len(vLines) :
            /\ vLines[i].x1 = vLines[i].x2 => vLines[i].angle = RInt(0)
            /\ RLeq(RAbs(vLines[i].angle), vConfig.verticalAngleTolerance)

\* what the code stores: 90 minus the angle to the downward vertical, that is
\* 90 for a vertical segment pointing down, -90 for one pointing up, and a
\* magnitude between 90 - verticalAngleTolerance and 90 for every accepted one
C21_AngleIsNinetyMinusDeviation ==
    vPc = "done" =>
        \A i \in 1..Len(vLines) :
            /\ (vLines[i].x1 = vLines[i].x2 /\ vLines[i].y2 > vLines[i].y1)
                   => vLines[i].angle = RInt(90)
            /\ (vLines[i].x1 = vLines[i].x2 /\ vLines[i].y2 < vLines[i].y1)
                   => vLines[i].angle = RInt(-90)
            /\ RLeq(RSub(RInt(90), vConfig.verticalAngleTolerance), RAbs(vLines[i].angle))
            /\ RLeq(RAbs(vLines[i].angle), RInt(90))

-----------------------------------------------------------------------------
(* Claims about calculateSpineRegions *)

RegionMinWidth == MinWidthOf(rWidth, rConfig)

RegionMaxWidth == MaxWidthOf(rWidth, rConfig)

\* C2 as stated: every region returned by calculateSpineRegions, for every
\* sorted line list (the empty one included), has a boundingBox.width within
\* [imageWidth * minSpineWidthPercent / 100, imageWidth * maxSpineWidthPercent / 100].
C2_WidthWithinBounds ==
    rPc = "done" =>
        \A i \in 1..Len(rRegions) :
            /\ RLeq(RegionMinWidth, RInt(rRegions[i].boundingBox.width))
            /\ RLeq(RInt(rRegions[i].boundingBox.width), RegionMaxWidth)

\* C2 amended: for a NON-EMPTY sorted line list, every region's width is the
\* rounding of a candidate width inside [minWidth, maxWidth], so it lies in
\* (minWidth - 1/2, maxWidth + 1/2]; the single whole-image region returned
\* for the empty list is not bounded by the configured percentages.
C2_WidthWithinRoundedBounds ==
    (rPc = "done" /\ Len(rLines) > 0) =>
        \A i \in 1..Len(rRegions) :
            LET w == RInt(rRegions[i].boundingBox.width)
            IN  /\ RLess(RSub(RegionMinWidth, Rat(1, 2)), w)
                /\ RLeq(w, RAdd(RegionMaxWidth, Rat(1, 2)))

\* a non-empty line list with a gap region whose rounded width left the bounds
C2_Witness ==
    /\ rPc = "done"
    /\ Len(rLines) > 1
    /\ \E i \in 1..Len(rRegions) :
          /\ rRegions[i].leftEdge # Null
          /\ rRegions[i].rightEdge # Null
          /\ RLess(RegionMaxWidth, RInt(rRegions[i].boundingBox.width))

\* C10: for the empty line list calculateSpineRegions returns exactly one
\* region, x = 0, y = 0, width = imageWidth, height = imageHeight, with both
\* edges null, whatever the configured width percentages are.
C10_NoLinesWholeImage ==
    (rPc = "done" /\ Len(rLines) = 0) =>
        rRegions = << [boundingBox |-> [x |-> 0, y |-> 0, width |-> rWidth, height |-> rHeight],
                       leftEdge |-> Null, rightEdge |-> Null] >>

\* the empty list, on an image wider than the configured maximum spine width
C10_Witness ==
    /\ rPc = "done"
    /\ Len(rLines) = 0
    /\ Len(rRegions) = 1
    /\ RLess(RegionMaxWidth, RInt(rWidth))

IsGapRegion(r) == r.leftEdge # Null /\ r.rightEdge # Null

\* C12: with imageWidth 900, minSpineWidthPercent 0.8, maxSpineWidthPercent 12
\* and three sorted lines at avgX 100, 400 and 700, calculateSpineRegions
\* returns no gap region: both 300-pixel gaps exceed maxWidth = 108 pixels.
C12_ScenarioNoGapRegion ==
    (rPc = "done" /\ rWidth = ThreeLineRow.width /\ rLines = ThreeLineRow.lines
                  /\ rConfig = ThreeLineRow.config) =>
        /\ RegionMaxWidth = RInt(108)
        /\ \A i \in 1..(Len(rLines) - 1) :
              RSub(rLines[i + 1].avgX, rLines[i].avgX) = RInt(300)
        /\ \A i \in 1..Len(rRegions) : ~ IsGapRegion(rRegions[i])

\* the scenario has been run: lines at 100, 400, 700, and the only region
\* returned is the leading one (0 to 100)
C12_Witness ==
    /\ rPc = "done"
    /\ rWidth = 900
    /\ Len(rLines) = 3
    /\ rLines[1].avgX = RInt(100) /\ rLines[2].avgX = RInt(400) /\ rLines[3].avgX = RInt(700)
    /\ rConfig.minSpineWidthPercent = Rat(4, 5) /\ rConfig.maxSpineWidthPercent = RInt(12)
    /\ Len(rRegions) = 1
    /\ rRegions[1].leftEdge = Null

\* C20: calculateSpineRegions accepts the gap between two consecutive lines
\* under the bound it applies to the leading and trailing regions: a gap
\* region is returned if and only if minWidth < gapWidth < maxWidth, so a gap
\* of exactly minWidth or exactly maxWidth is rejected.
C20_GapsUnderStrictBound ==
    rPc = "done" =>
        \A i \in 1..(Len(rLines) - 1) :
            LET gapWidth == RSub(rLines[i + 1].avgX, rLines[i].avgX)
            IN  (\E k \in 1..Len(rRegions) :
                    /\ rRegions[k].leftEdge = rLines[i]
                    /\ rRegions[k].rightEdge = rLines[i + 1])
                <=> (RLess(RegionMinWidth, gapWidth) /\ RLess(gapWidth, RegionMaxWidth))

\* C28: the regions calculateSpineRegions returns for a list of lines sorted
\* by avgX are ordered left to right and do not overlap horizontally: for
\* consecutive regions r_i, r_{i+1}, r_i.x + r_i.width <= r_{i+1}.x, also when
\* the avgX values are non-integers and x and width are rounded separately.
C28_RegionsDoNotOverlap ==
    rPc = "done" =>
        \A i \in 1..(Len(rRegions) - 1) :
            /\ rRegions[i].boundingBox.x <= rRegions[i + 1].boundingBox.x
            /\ rRegions[i].boundingBox.x + rRegions[i].boundingBox.width
                  <= rRegions[i + 1].boundingBox.x

\* what the separate roundings do give: the regions are ordered by x, and
\* consecutive regions share at most one pixel column
C28_RegionsOverlapByOneAtMost ==
    rPc = "done" =>
        \A i \in 1..(Len(rRegions) - 1) :
            /\ rRegions[i].boundingBox.x <= rRegions[i + 1].boundingBox.x
            /\ rRegions[i].boundingBox.x + rRegions[i].boundingBox.width
                  <= rRegions[i + 1].boundingBox.x + 1

-----------------------------------------------------------------------------
(* Claims about detectShelfRows *)

Near(a, b) == Abs(a - b) <= 5

\* C4 as stated: on the 1500-row image that is uniformly bright except for two
\* dark bands at y = 500-520 and y = 1000-1020 of 10% brightness,
\* detectShelfRows returns exactly 3 rows, about {0, 500}, {520, 480} and
\* {1020, 480} (each value within a few pixels).
C4_ScenarioThreeRows ==
    (sPc = "done" /\ sMat \in ScenarioMats) =>
        /\ Len(sRows) = 3
        /\ Near(sRows[1].y, 0)    /\ Near(sRows[1].height, 500)
        /\ Near(sRows[2].y, 520)  /\ Near(sRows[2].height, 480)
        /\ Near(sRows[3].y, 1020) /\ Near(sRows[3].height, 480)

\* C4 amended: on that image detectShelfRows returns exactly one row, the
\* whole image {y: 0, height: 1500}: smoothing over 31 rows lifts a 20-row
\* band above 40% of the average brightness, so no dark band is found.
C4_ScenarioOneRow ==
    (sPc = "done" /\ sMat \in ScenarioMats) =>
        /\ sRows = << [y |-> 0, height |-> 1500] >>
        /\ DarkRows(sMat) = {}

\* the scenario image has been segmented
C4_Witness ==
    /\ sPc = "done"
    /\ sMat = TwoBandMat(20)
    /\ Len(sMat) = 1500 /\ sMat[501] = 20 /\ sMat[520] = 20 /\ sMat[521] = 200
    /\ Len(sRows) = 1

\* C8: the rows detectShelfRows returns are ordered top to bottom and do not
\* overlap (r_i.y + r_i.height <= r_{i+1}.y), and every row lies inside the
\* image (0 <= y, y + height <= image height).
C8_RowsOrderedDisjointInside ==
    sPc = "done" =>
        /\ \A i \in 1..Len(sRows) :
              /\ 0 <= sRows[i].y
              /\ sRows[i].y + sRows[i].height <= Len(sMat)
        /\ \A i \in 1..(Len(sRows) - 1) :
              sRows[i].y + sRows[i].height <= sRows[i + 1].y

\* an image split into three rows around two dark bands
C8_Witness ==
    /\ sPc = "done"
    /\ Len(sRows) = 3
    /\ sRows[1].y + sRows[1].height < sRows[2].y
    /\ sRows[2].y + sRows[2].height < sRows[3].y

\* a small image split into two rows
C8_WitnessSmall ==
    /\ sPc = "done"
    /\ Len(sMat) <= MaxHeight
    /\ Len(sRows) = 2

Uniform(mat) == \A i, j \in 1..Len(mat) : mat[i] = mat[j]

\* C11: for an image in which every pixel has the same brightness (all-black,
\* brightness 0, included) detectShelfRows returns exactly one row,
\* {y: 0, height: imageHeight}.
C11_UniformImageOneRow ==
    (sPc = "done" /\ Uniform(sMat)) => sRows = << [y |-> 0, height |-> Len(sMat)] >>

\* an all-black image, whose dark threshold is 0, has been segmented
C11_Witness ==
    /\ sPc = "done"
    /\ Len(sMat) >= 2
    /\ \A i \in 1..Len(sMat) : sMat[i] = 0
    /\ DarkThreshold(sMat) = RInt(0)
    /\ Len(sRows) = 1

OnePercent(height) == IF height < 100 THEN 1 ELSE height \div 100

\* C22 as stated: the smoothed value at an interior row y is the mean of
\* w = max(1, floor(height * 0.01)) consecutive raw row-brightness values
\* around y (a window of 1% of the image height, at least one sample).
C22_WindowIsOnePercent ==
    sPc = "done" =>
        LET w == OnePercent(Len(sMat))
        IN  \A y \in w..(Len(sMat) - 1 - w) :
                \E first \in (y - w + 1)..y :
                    Smoothed(sMat, y) = Rat(SumSeq(SubSeq(sMat, first + 1, first + w)), w)

\* C22 amended: w = max(1, floor(height * 0.01)) is the half-width of the
\* window: the smoothed value at an interior row y is the mean of the
\* 2w + 1 raw values of rows y - w .. y + w (at least 3 samples, about 2% of
\* the image height).
C22_WindowIsTwoHalvesOfOnePercent ==
    sPc = "done" =>
        LET w == OnePercent(Len(sMat))
        IN  \A y \in w..(Len(sMat) - 1 - w) :
                Smoothed(sMat, y) = Rat(SumSeq(SubSeq(sMat, y - w + 1, y + w + 1)), 2 * w + 1)

\* the 1500-row image was segmented: row 485 is bright and 15 rows above the
\* first dark band, whose top row its 31-row window takes in
C22_Witness ==
    /\ sPc = "done"
    /\ Len(sMat) = 1500
    /\ sMat[486] = 200
    /\ Smoothed(sMat, 485) = Rat(30 * 200 + 20, 31)
    /\ Smoothed(sMat, 484) = RInt(200)

-----------------------------------------------------------------------------
(* Claims about detectSpines *)

InsideImage(box, imageWidth, imageHeight) ==
    /\ box.x >= 0
    /\ box.y >= 0
    /\ box.x + box.width <= imageWidth
    /\ box.y + box.height <= imageHeight

\* C1: whenever detectSpines completes, every spine of the result has a
\* boundingBox fully inside the original image: x >= 0, y >= 0,
\* x + width <= imageWidth and y + height <= imageHeight.
C1_BoxesInsideImage ==
    pc = "done" =>
        \A i \in 1..Len(result.spines) :
            InsideImage(result.spines[i].boundingBox, image.width, image.height)

\* the vertical half of C1, which the code does keep: the row crop is clamped
\* before its height is used
C1_BoxesInsideImageVertically ==
    pc = "done" =>
        \A i \in 1..Len(result.spines) :
            LET box == result.spines[i].boundingBox
            IN  box.x >= 0 /\ box.y >= 0 /\ box.y + box.height <= image.height

\* C5: the configuration detectSpines works with has non-negative
\* minSpineWidthPercent, maxSpineWidthPercent and verticalAngleTolerance, and
\* maxSpineWidthPercent >= minSpineWidthPercent.
C5_ConfigClamped ==
    pc \notin {"idle", "start"} =>
        /\ RLeq(RInt(0), fullConfig.minSpineWidthPercent)
        /\ RLeq(RInt(0), fullConfig.maxSpineWidthPercent)
        /\ RLeq(RInt(0), fullConfig.verticalAngleTolerance)
        /\ RLeq(fullConfig.minSpineWidthPercent, fullConfig.maxSpineWidthPercent)

\* C6: on every exit of detectSpines, also when a stage throws, every native
\* matrix allocated during the call has been deleted.
C6_NoMatrixLeftOnExit ==
    pc \in {"done", "failed"} => live = {}

\* C7: in the result of detectSpines the spines' index values are 0, 1, ...,
\* n - 1 in list order, whatever the quality filter removed and however many
\* shelf rows were processed.
C7_IndexContiguous ==
    pc = "done" =>
        \A i \in 1..Len(result.spines) : result.spines[i].index = i - 1

\* two shelf rows, and a candidate that the filter removed ahead of survivors
C7_Witness ==
    /\ pc = "done"
    /\ Len(shelfRows) >= 2
    /\ Len(result.spines) >= 2
    /\ result.filteredCount >= 1
    /\ ~ KeepSpine(allSpines[1], image.width)

Unindexed(spine) ==
    [boundingBox |-> spine.boundingBox, imageBuffer |-> spine.imageBuffer,
     leftEdge |-> spine.leftEdge, rightEdge |-> spine.rightEdge]

WideEnough(spine) == 1000 * spine.boundingBox.width >= 15 * image.width

BrightEnough(spine) == spine.imageBuffer.mean >= 20

\* C13: the quality filter keeps a candidate spine if and only if its
\* boundingBox.width is at least 1.5% of the full image width and the mean
\* brightness of its crop is at least 20; a 40-pixel region of mean brightness
\* 5 on a 1000-pixel-wide image passes the width test and is discarded by the
\* brightness test.
C13_FilterKeepsWideAndBright ==
    pc = "done" =>
        /\ [i \in 1..Len(result.spines) |-> Unindexed(result.spines[i])]
             = LET kept == SelectSeq(allSpines, LAMBDA sp : WideEnough(sp) /\ BrightEnough(sp))
               IN  [i \in 1..Len(kept) |-> Unindexed(kept[i])]
        /\ \A i \in 1..Len(allSpines) :
              (image.width = 1000 /\ allSpines[i].boundingBox.width = 40
                                  /\ allSpines[i].imageBuffer.mean = 5) =>
                 /\ WideEnough(allSpines[i])
                 /\ \A j \in 1..Len(result.spines) :
                       Unindexed(result.spines[j]) # Unindexed(allSpines[i])

\* on a 1000-pixel-wide image one candidate 40 pixels wide of mean brightness
\* 5 and one candidate narrower than 15 pixels were both discarded
C13_Witness ==
    /\ pc = "done"
    /\ image.width = 1000
    /\ \E i \in 1..Len(allSpines) :
          allSpines[i].boundingBox.width = 40 /\ allSpines[i].imageBuffer.mean = 5
    /\ \E i \in 1..Len(allSpines) :
          allSpines[i].boundingBox.width < 15 /\ allSpines[i].imageBuffer.mean = 20
    /\ result.filteredCount >= 2

\* C16: for every requested rectangle with width >= 1 and height >= 1, also
\* one that starts before 0 or reaches past the matrix, cropRegion does not
\* fail and crops a non-empty rectangle inside the matrix: 0 <= cx,
\* cx + cw <= cols, 0 <= cy, cy + ch <= rows, cw >= 1, ch >= 1.
C16_CropClampedInside ==
    cPc \notin {"idle", "input"} =>
        /\ cPc = "done"
        /\ 0 <= cRect.x /\ cRect.x + cRect.width <= cMat.cols
        /\ 0 <= cRect.y /\ cRect.y + cRect.height <= cMat.rows
        /\ cRect.width >= 1 /\ cRect.height >= 1

\* a request that starts left of the matrix and reaches below it was cropped
C16_Witness ==
    /\ cPc = "done"
    /\ cRequest.x < 0
    /\ cRequest.y + cRequest.height > cMat.rows
    /\ cRequest.x + cRequest.width > cMat.cols
    /\ cRect.x = 0 /\ cRect.width = cMat.cols

\* C17: the final spine list is in top-to-bottom row order and left-to-right
\* order within a row: boundingBox.y is non-decreasing along the list, among
\* spines of one row (equal y) boundingBox.x is non-decreasing, and the
\* survivors of the quality filter keep the relative order they had among the
\* candidates.
C17_SpinesInReadingOrder ==
    pc = "done" =>
        \A i, j \in 1..Len(result.spines) :
            i < j =>
              LET a == result.spines[i]
                  b == result.spines[j]
              IN  /\ a.boundingBox.y <= b.boundingBox.y
                  /\ a.boundingBox.y = b.boundingBox.y => a.boundingBox.x <= b.boundingBox.x
                  /\ \E k, l \in 1..Len(allSpines) :
                        /\ k < l
                        /\ Unindexed(allSpines[k]) = Unindexed(a)
                        /\ Unindexed(allSpines[l]) = Unindexed(b)

\* two spines of one row and a spine of a lower row survived a filter that
\* removed a candidate
C17_Witness ==
    /\ pc = "done"
    /\ result.filteredCount >= 1
    /\ \E i, j, k \in 1..Len(result.spines) :
          /\ i < j /\ j < k
          /\ result.spines[i].boundingBox.y = result.spines[j].boundingBox.y
          /\ result.spines[i].boundingBox.x < result.spines[j].boundingBox.x
          /\ result.spines[j].boundingBox.y < result.spines[k].boundingBox.y

\* C19: on a detectSpines run in which no stage fails, every matrix allocated
\* during the call is deleted exactly once before the call returns (as many
\* delete() calls as allocations, none left alive, none deleted twice), no
\* matrix is read after its delete(), and when no resize was needed the
\* matrix shared by originalMat and resizedMat is deleted once.
C19_EveryMatrixDeletedOnce ==
    /\ pc # "failed" => misuse = {}
    /\ pc \in {"filter", "done"} =>
          /\ live = {}
          /\ deletes = allocs
          /\ allocs = (IF resizedMat # originalMat THEN 2 ELSE 1) + 1
                         + 11 * Len(shelfRows) + 3 * Len(allSpines)

\* a run without resize, over two shelf rows, with spines extracted and the
\* debug image encoded, has returned
C19_Witness ==
    /\ pc = "done"
    /\ resizedMat = originalMat
    /\ Len(shelfRows) >= 2
    /\ Len(allSpines) >= 2
    /\ edgesImageBuffer # Null
    /\ deletes = allocs
    /\ live = {}

\* the regions extractSpines has cropped so far: each crop allocates three
\* matrices, each shelf row eleven more, the decode, the resize and the row
\* scan the rest
RegionsExtracted ==
    (allocs - (IF resizedMat # originalMat THEN 2 ELSE 1) - 1 - 11 * Len(shelfRows)) \div 3

\* C26: in every DetectionResult filteredCount is the number of candidate
\* spines the quality filter discarded: filteredCount + spines.length is the
\* number of regions extracted over all shelf rows, and filteredCount >= 0.
C26_FilteredCountIsDiscarded ==
    pc = "done" =>
        /\ result.filteredCount >= 0
        /\ result.filteredCount + Len(result.spines) = RegionsExtracted
        /\ result.filteredCount =
              Cardinality({ i \in 1..Len(allSpines) :
                              ~ (WideEnough(allSpines[i]) /\ BrightEnough(allSpines[i])) })

\* a call over two shelf rows that both gave regions has returned, the filter
\* having kept some candidates and discarded others
C26_Witness ==
    /\ pc = "done"
    /\ Len(shelfRows) >= 2
    /\ result.filteredCount >= 1
    /\ Len(result.spines) >= 1
    /\ \E i, j \in 1..Len(allSpines) :
          allSpines[i].boundingBox.y # allSpines[j].boundingBox.y

\* C30: the shelfRows detectSpines reports in original-image coordinates (y
\* and height each rounded separately after the multiplication by scaleY)
\* remain ordered, pairwise non-overlapping and inside the image
\* (y + height <= original image height) for every resize scale factor, and
\* each spine's boundingBox y and height equal those of the reported row it
\* was extracted from.
C30_ReportedRowsInsideImage ==
    pc = "done" =>
        /\ \A i \in 1..Len(result.shelfRows) :
              /\ result.shelfRows[i].y >= 0
              /\ result.shelfRows[i].y + result.shelfRows[i].height <= image.height
        /\ \A i \in 1..(Len(result.shelfRows) - 1) :
              result.shelfRows[i].y + result.shelfRows[i].height
                 <= result.shelfRows[i + 1].y
        /\ \A k \in 1..Len(result.spines) :
              \E i \in 1..Len(result.shelfRows) :
                 /\ result.spines[k].boundingBox.y = result.shelfRows[i].y
                 /\ result.spines[k].boundingBox.height = result.shelfRows[i].height

\* what the separate roundings do give: the reported rows are ordered and
\* disjoint, and a row ends at most one pixel below the image
C30_ReportedRowsOrderedOnePixelOver ==
    pc = "done" =>
        /\ \A i \in 1..Len(result.shelfRows) :
              /\ result.shelfRows[i].y >= 0
              /\ result.shelfRows[i].y + result.shelfRows[i].height <= image.height + 1
        /\ \A i \in 1..(Len(result.shelfRows) - 1) :
              result.shelfRows[i].y + result.shelfRows[i].height
                 <= result.shelfRows[i + 1].y

\* the edge maps allocated and not yet deleted
LiveEdges == { id \in live : id[1] = "edges" }

\* C25: detectSpines returns edgesImageBuffer if and only if includeDebugImage
\* is true, and it is then the encoding of the edge map of the last shelf row
\* processed; each earlier row's edge map is released when the next row's
\* edge map replaces it (at most one edge map is alive, the one of the row
\* processed last), and the retained map is encoded while it is alive and
\* released before the call returns.
C25_DebugImageIsLastRowEdges ==
    /\ pc = "done" =>
          /\ (result.edgesImageBuffer # Null) <=> includeDebugImage
          /\ includeDebugImage =>
                result.edgesImageBuffer = [png |-> <<"edges", Len(shelfRows)>>]
          /\ LiveEdges = {}
    /\ pc # "failed" =>
          /\ LiveEdges \subseteq (IF lastEdgesMat = Null THEN {} ELSE {lastEdgesMat.id})
          /\ pc \in {"rowOrigCrop", "rowExtract"} =>
                LiveEdges = { <<"edges", rowIndex>> }
          /\ pc = "rowCrop" /\ rowIndex > 1 =>
                LiveEdges = { <<"edges", rowIndex - 1>> }
          /\ pc = "cleanup" /\ edgesImageBuffer # Null =>
                /\ edgesImageBuffer.png \in live
                /\ \A mis \in misuse : mis # edgesImageBuffer.png
    /\ pc # "failed" => misuse = {}

\* a call over two shelf rows with the debug image asked for has returned the
\* encoding of the second row's edge map
C25_Witness ==
    /\ pc = "done"
    /\ includeDebugImage
    /\ Len(shelfRows) >= 2
    /\ result.edgesImageBuffer = [png |-> <<"edges", 2>>]

\* a call without the debug image has returned
C25_WitnessNoImage ==
    /\ pc = "done"
    /\ ~ includeDebugImage
    /\ result.edgesImageBuffer = Null

StageOrder ==
    << "start", "decode", "resize", "segment", "rowCrop", "rowLines", "rowOrigCrop",
       "rowExtract", "debug", "cleanup", "filter", "done", "failed" >>

Rank(p) == CHOOSE k \in 1..Len(StageOrder) : StageOrder[k] = p

\* position <<r2, p2>> lies strictly after <<r1, p1>> in the order of execution
Later(r1, p1, r2, p2) == r2 > r1 \/ (r2 = r1 /\ Rank(p2) > Rank(p1))

\* C15: when a stage of detectSpines fails the call fails as a whole: the
\* throwing step leaves the call with no DetectionResult, nothing runs after
\* it (no later row, no retry), and no stage is ever executed a second time
\* (every step moves strictly forward through the stages and rows).
C15_FailureAbortsCall ==
    /\ [](pc = "failed" => result = Null)
    /\ [][ /\ pc # "failed"
           /\ StageThrows => (pc' = "failed" /\ result' = Null)
           /\ Later(rowIndex, pc, rowIndex', pc') ]_vars

\* the call failed in the second shelf row, after the first row's spines had
\* been extracted: a partial spine list exists and no result was returned
C15_Witness ==
    /\ pc = "failed"
    /\ Len(shelfRows) >= 2
    /\ rowIndex = 2
    /\ Len(allSpines) >= 1
    /\ result = Null

-----------------------------------------------------------------------------
(* Claims about initOpenCV *)

\* C14: for any number and interleaving of initOpenCV calls, the load is set
\* up at most once: one promise is created, one onRuntimeInitialized hook (and
\* one timer) is installed, every call that does not return at once returns
\* that same promise, and a call made after initialisation returns at once.
C14_LoadSetUpOnce ==
    /\ Len(promises) <= 1
    /\ Len(hooks) <= 1
    /\ Cardinality(timers) <= 1
    /\ Cardinality({i \in 1..Len(calls) : calls[i].created}) <= 1
    /\ \A i \in 1..Len(calls) :
          /\ calls[i].waitsOn \in {0, initPromise}
          /\ calls[i].waitsOn = 0 => (isInitialized /\ Outcome(calls[i]) = "fulfilled")
          /\ calls[i].saw = "pending" => calls[i].waitsOn = 1

\* the first call created the promise, two more calls arrived while it was
\* pending, the runtime initialised, and a later call returned at once
C14_Witness ==
    /\ Len(calls) >= 4
    /\ calls[1].created
    /\ calls[2].saw = "pending" /\ calls[2].waitsOn = calls[1].waitsOn
    /\ calls[3].saw = "pending" /\ calls[3].waitsOn = calls[1].waitsOn
    /\ calls[4].waitsOn = 0
    /\ \A i \in 1..3 : Outcome(calls[i]) = "fulfilled"

\* C27 as stated: once an initOpenCV call has rejected with the timeout error
\* the failure is sticky: every later call also rejects and no new load
\* attempt is started, even if the runtime finishes initialising after the
\* timeout fired.
C27_TimeoutIsSticky ==
    \A j \in 1..Len(calls) :
        calls[j].saw = "rejected" =>
            /\ Outcome(calls[j]) = "rejected"
            /\ ~ calls[j].created

\* C27 amended: after the timeout rejection no new load attempt is ever
\* started (one promise, one hook, the promise stays rejected), and a later
\* call rejects with that promise as long as the runtime has not
\* initialised; once the runtime finishes initialising, after the timeout,
\* the hook still sets isInitialized and every later call resolves at once.
C27_TimeoutStickyUntilRuntimeReady ==
    \A j \in 1..Len(calls) :
        calls[j].saw = "rejected" =>
            /\ ~ calls[j].created
            /\ Len(promises) = 1 /\ Len(hooks) = 1
            /\ promises[1] = "rejected"
            /\ IF calls[j].waitsOn = 0
               THEN isInitialized /\ cvMat /\ Outcome(calls[j]) = "fulfilled"
               ELSE calls[j].waitsOn = initPromise /\ Outcome(calls[j]) = "rejected"
            /\ \A k \in j..Len(calls) :
                  calls[j].waitsOn = 0 => calls[k].waitsOn = 0

\* the first call timed out, the second call was rejected too, the runtime
\* then finished initialising and the third call resolved
C27_Witness ==
    /\ Len(calls) >= 3
    /\ calls[1].created /\ Outcome(calls[1]) = "rejected"
    /\ calls[2].saw = "rejected" /\ Outcome(calls[2]) = "rejected"
    /\ calls[3].saw = "rejected" /\ Outcome(calls[3]) = "fulfilled"
    /\ isInitialized

=============================================================================
